---- MODULE Spec2Model ----
(***************************************************************************)
(* libatm: encoding of a note sequence into a single-track Standard MIDI   *)
(* File.  The model follows src/src/midi_note.rs, src/src/midi_event.rs    *)
(* and src/src/midi_file.rs.                                               *)
(*                                                                         *)
(* A u32 is kept at its full width as two 16-bit limbs [hi, lo]; the       *)
(* exact (unbounded) result of an arithmetic step is a "wide" number, the  *)
(* same record whose hi limb may exceed 16 bits.  A step whose wide result *)
(* does not fit panics when the build checks overflow (debug profile) and  *)
(* wraps modulo 2^32 otherwise (release profile).                          *)
(***************************************************************************)
EXTENDS Integers, Sequences, FiniteSets, TLC

VARIABLES
    overflow_checks, \* build profile: TRUE = arithmetic overflow panics
    args,            \* arguments of the free functions / constructors under call
    file,            \* the MIDIFile (sequence, format, tracks, division)
    target,          \* the byte sink handed to write_buffer
    writes,          \* number of write_buffer calls made on the sink
    result           \* what the last call returned

vars == <<overflow_checks, args, file, target, writes, result>>

----------------------------------------------------------------------------
(* Bounds of the model *)

MaxLen == 3
MaxWrites == 2

----------------------------------------------------------------------------
(* u32 arithmetic *)

Limb == 256 * 256

U32(h, l) == [hi |-> h, lo |-> l]

FromNat(n) == U32(n \div Limb, n % Limb)

U32Max == U32(Limb - 1, Limb - 1)

WideAdd(a, b) ==
    LET lo == a.lo + b.lo
    IN  U32(a.hi + b.hi + (lo \div Limb), lo % Limb)

WideMul(a, k) ==
    LET lo == a.lo * k
    IN  U32(a.hi * k + (lo \div Limb), lo % Limb)

Fits(w) == w.hi < Limb

Wrap(w) == U32(w.hi % Limb, w.lo)

\* mutant: a number above 255 becomes 255
AsU8_Saturating(u) == IF u.hi > 0 \/ u.lo > 255 THEN 255 ELSE u.lo

AsU8(u) == u.lo % 256

RECURSIVE BitOr(_, _)
BitOr(a, b) ==
    IF a = 0 /\ b = 0 THEN 0
    ELSE (IF a % 2 = 1 \/ b % 2 = 1 THEN 1 ELSE 0) + 2 * BitOr(a \div 2, b \div 2)

Shl8(x, k) == (x * (2 ^ k)) % 256

----------------------------------------------------------------------------
(* midi_note.rs *)

MIDINoteType ==
    {"C", "CSharp", "D", "DSharp", "E", "F", "FSharp", "G", "GSharp",
     "A", "ASharp", "B", "Rest"}

\* `note_type as u32`: the discriminant of the enum, in declaration order
Ordinal(t) ==
    CASE t = "C" -> 0       [] t = "CSharp" -> 1  [] t = "D" -> 2
      [] t = "DSharp" -> 3  [] t = "E" -> 4       [] t = "F" -> 5
      [] t = "FSharp" -> 6  [] t = "G" -> 7       [] t = "GSharp" -> 8
      [] t = "A" -> 9       [] t = "ASharp" -> 10 [] t = "B" -> 11
      [] t = "Rest" -> 12

MIDINote(t, o) == [note_type |-> t, octave |-> o]

\* mutant: the octave is not shifted by one before scaling
MIDINote_convert_NoShift(note, checks) ==
    IF note.note_type = "Rest"
    THEN [panicked |-> FALSE, wrapped |-> FALSE, value |-> U32Max]
    ELSE LET mul == WideMul(note.octave, 12)
             sum == WideAdd(FromNat(Ordinal(note.note_type)), Wrap(mul))
             over == ~Fits(mul) \/ ~Fits(sum)
         IN  IF over /\ checks
             THEN [panicked |-> TRUE]
             ELSE [panicked |-> FALSE, wrapped |-> over, value |-> Wrap(sum)]

\* mutant: no separate arm for Rest
MIDINote_convert_NoRestArm(note, checks) ==
    LET inc == WideAdd(note.octave, FromNat(1))
        mul == WideMul(Wrap(inc), 12)
        sum == WideAdd(FromNat(Ordinal(note.note_type)), Wrap(mul))
        over == ~Fits(inc) \/ ~Fits(mul) \/ ~Fits(sum)
    IN  IF over /\ checks
        THEN [panicked |-> TRUE]
        ELSE [panicked |-> FALSE, wrapped |-> over, value |-> Wrap(sum)]

\* (self.note_type as u32) + (self.octave + 1) * 12, each step in u32
MIDINote_convert(note, checks) ==
    IF note.note_type = "Rest"
    THEN [panicked |-> FALSE, wrapped |-> FALSE, value |-> U32Max]
    ELSE LET inc == WideAdd(note.octave, FromNat(1))
             mul == WideMul(Wrap(inc), 12)
             sum == WideAdd(FromNat(Ordinal(note.note_type)), Wrap(mul))
             over == ~Fits(inc) \/ ~Fits(mul) \/ ~Fits(sum)
         IN  IF over /\ checks
             THEN [panicked |-> TRUE]
             ELSE [panicked |-> FALSE, wrapped |-> over, value |-> Wrap(sum)]

----------------------------------------------------------------------------
(* midi_event.rs *)

MIDIStatus ==
    {"RunningStatus", "NoteOff", "NoteOn", "PolyphonicAftertouch",
     "ControlChange", "ProgramChange", "Aftertouch", "PitchWheelChange"}

\* `status as u8`
StatusNibble(s) ==
    CASE s = "RunningStatus" -> 0         [] s = "NoteOff" -> 8
      [] s = "NoteOn" -> 9                [] s = "PolyphonicAftertouch" -> 10
      [] s = "ControlChange" -> 11        [] s = "ProgramChange" -> 12
      [] s = "Aftertouch" -> 13           [] s = "PitchWheelChange" -> 14

\* mutant: the velocity of a Rest is stored as given
MIDIChannelVoiceMessage_new_KeepVelocity(delta_time, note, velocity, status, channel, checks) ==
    IF ~(channel < 16) \/ ~(velocity < 128)
    THEN [panicked |-> TRUE]
    ELSE LET event_status ==
                 IF status = "RunningStatus" THEN 0
                 ELSE BitOr(Shl8(StatusNibble(status), 4), channel)
             n == MIDINote_convert(note, checks)
         IN  IF n.panicked
             THEN [panicked |-> TRUE]
             ELSE [panicked |-> FALSE,
                   msg |-> [delta_time |-> delta_time, status |-> event_status,
                            note |-> AsU8(n.value), velocity |-> velocity]]

\* mutant: the status nibble is shifted by three bits instead of four
MIDIChannelVoiceMessage_new_Shift3(delta_time, note, velocity, status, channel, checks) ==
    IF ~(channel < 16) \/ ~(velocity < 128)
    THEN [panicked |-> TRUE]
    ELSE LET vel == IF note.note_type = "Rest" THEN 0 ELSE velocity
             event_status ==
                 IF status = "RunningStatus" THEN 0
                 ELSE BitOr(Shl8(StatusNibble(status), 3), channel)
             n == MIDINote_convert(note, checks)
         IN  IF n.panicked
             THEN [panicked |-> TRUE]
             ELSE [panicked |-> FALSE,
                   msg |-> [delta_time |-> delta_time, status |-> event_status,
                            note |-> AsU8(n.value), velocity |-> vel]]

\* MIDIChannelVoiceMessage::new.  The arm named MIDINoteType::Empty in
\* midi_event.rs is the variant midi_note.rs declares as Rest.
MIDIChannelVoiceMessage_new(delta_time, note, velocity, status, channel, checks) ==
    IF ~(channel < 16) \/ ~(velocity < 128)
    THEN [panicked |-> TRUE]
    ELSE LET vel == IF note.note_type = "Rest" THEN 0 ELSE velocity
             event_status ==
                 IF status = "RunningStatus" THEN 0
                 ELSE BitOr(Shl8(StatusNibble(status), 4), channel)
             n == MIDINote_convert(note, checks)
         IN  IF n.panicked
             THEN [panicked |-> TRUE]
             ELSE [panicked |-> FALSE,
                   msg |-> [delta_time |-> delta_time, status |-> event_status,
                            note |-> AsU8(n.value), velocity |-> vel]]

\* mutant: the status byte is written before the delta-time
MIDIChannelVoiceMessage_write_buffer_StatusFirst(m) ==
    (IF m.status # 0 THEN <<m.status>> ELSE <<>>)
        \o <<m.delta_time, m.note, m.velocity>>

\* MIDIChannelVoiceMessage::write_buffer: the bytes it hands to the sink
MIDIChannelVoiceMessage_write_buffer(m) ==
    <<m.delta_time>>
        \o (IF m.status # 0 THEN <<m.status>> ELSE <<>>)
        \o <<m.note, m.velocity>>

----------------------------------------------------------------------------
(* midi_file.rs *)

MIDIFormat == {"Format0", "Format1", "Format2"}

\* `format as u16`
FormatOrdinal(f) ==
    CASE f = "Format0" -> 0 [] f = "Format1" -> 1 [] f = "Format2" -> 2

BE16(x) == <<x \div 256, x % 256>>

BE32(u) == <<u.hi \div 256, u.hi % 256, u.lo \div 256, u.lo % 256>>

\* MIDIHeader::new
MIDIHeader_new(chunk_type, length, format, tracks, division) ==
    [chunk_type |-> chunk_type, length |-> length,
     format |-> FormatOrdinal(format), tracks |-> tracks, division |-> division]

\* mutant: the header writes the division before the track count
MIDIHeader_write_buffer_Swapped(h) ==
    h.chunk_type \o BE32(h.length) \o BE16(h.format) \o BE16(h.division)
        \o BE16(h.tracks)

\* MIDIHeader::write_buffer: the bytes it hands to the sink
MIDIHeader_write_buffer(h) ==
    h.chunk_type \o BE32(h.length) \o BE16(h.format) \o BE16(h.tracks)
        \o BE16(h.division)

\* MIDITrackHeader::new
MIDITrackHeader_new(chunk_type, length) ==
    [chunk_type |-> chunk_type, length |-> length]

\* MIDITrackHeader::write_buffer: the bytes it hands to the sink
MIDITrackHeader_write_buffer(h) == h.chunk_type \o BE32(h.length)

\* mutant: five bytes per note instead of six
gen_midi_track_size_Five(num_notes, checks) ==
    LET mul == WideMul(num_notes, 5)
        sum == WideAdd(Wrap(mul), FromNat(1))
        over == ~Fits(mul) \/ ~Fits(sum)
    IN  IF over /\ checks
        THEN [panicked |-> TRUE]
        ELSE [panicked |-> FALSE, wrapped |-> over, value |-> Wrap(sum)]

\* (num_notes * 6) + 1 in u32
gen_midi_track_size(num_notes, checks) ==
    LET mul == WideMul(num_notes, 6)
        sum == WideAdd(Wrap(mul), FromNat(1))
        over == ~Fits(mul) \/ ~Fits(sum)
    IN  IF over /\ checks
        THEN [panicked |-> TRUE]
        ELSE [panicked |-> FALSE, wrapped |-> over, value |-> Wrap(sum)]

\* 22 + gen_midi_track_size(num_notes) in u32
gen_midi_file_size(num_notes, checks) ==
    LET t == gen_midi_track_size(num_notes, checks)
    IN  IF t.panicked
        THEN [panicked |-> TRUE]
        ELSE LET sum == WideAdd(FromNat(22), t.value)
                 over == t.wrapped \/ ~Fits(sum)
             IN  IF ~Fits(sum) /\ checks
                 THEN [panicked |-> TRUE]
                 ELSE [panicked |-> FALSE, wrapped |-> over, value |-> Wrap(sum)]

\* MIDIFile::new
MIDIFile_new(sequence, format, tracks, division) ==
    [sequence |-> sequence, format |-> format, tracks |-> tracks,
     division |-> division]

\* MIDIFile::gen_header
gen_header(self) ==
    MIDIHeader_new(<<77, 84, 104, 100>>, FromNat(6), self.format, self.tracks,
                   self.division)

\* MIDIFile::gen_track_size (self.sequence.len() as u32)
gen_track_size(self, checks) ==
    gen_midi_track_size(FromNat(Len(self.sequence)), checks)

\* MIDIFile::gen_track_header
gen_track_header(self, checks) ==
    LET size == gen_track_size(self, checks)
    IN  IF size.panicked
        THEN [panicked |-> TRUE]
        ELSE [panicked |-> FALSE,
              header |-> MIDITrackHeader_new(<<77, 84, 114, 107>>, size.value)]

\* mutant: the release comes before the attack
NoteEvents_ReleaseFirst(self, idx, checks) ==
    LET note == self.sequence[idx]
        delta_time == self.division % 256
        first_status == IF idx = 1 THEN "NoteOn" ELSE "RunningStatus"
    IN  <<MIDIChannelVoiceMessage_new(delta_time, note, 0, first_status, 0, checks),
          MIDIChannelVoiceMessage_new(0, note, 100, "RunningStatus", 0, checks)>>

\* the two messages gen_track makes for the note at (1-based) position idx
NoteEvents(self, idx, checks) ==
    LET note == self.sequence[idx]
        delta_time == self.division % 256
        first_status == IF idx = 1 THEN "NoteOn" ELSE "RunningStatus"
    IN  <<MIDIChannelVoiceMessage_new(0, note, 100, first_status, 0, checks),
          MIDIChannelVoiceMessage_new(delta_time, note, 0, "RunningStatus", 0, checks)>>

\* mutant: every attack carries an explicit NoteOn status
gen_track_AlwaysNoteOn(self, checks) ==
    LET n == Len(self.sequence)
        pairs == [i \in 1..n |->
                    <<MIDIChannelVoiceMessage_new(0, self.sequence[i], 100, "NoteOn", 0, checks),
                      MIDIChannelVoiceMessage_new(self.division % 256, self.sequence[i], 0,
                                                  "RunningStatus", 0, checks)>>]
    IN  IF \E i \in 1..n : pairs[i][1].panicked \/ pairs[i][2].panicked
        THEN [panicked |-> TRUE]
        ELSE [panicked |-> FALSE,
              events |-> [k \in 1..(2 * n) |->
                            pairs[(k + 1) \div 2][IF k % 2 = 1 THEN 1 ELSE 2].msg]]

\* MIDIFile::gen_track
gen_track(self, checks) ==
    LET n == Len(self.sequence)
        pairs == [i \in 1..n |-> NoteEvents(self, i, checks)]
    IN  IF \E i \in 1..n : pairs[i][1].panicked \/ pairs[i][2].panicked
        THEN [panicked |-> TRUE]
        ELSE [panicked |-> FALSE,
              events |-> [k \in 1..(2 * n) |->
                            pairs[(k + 1) \div 2][IF k % 2 = 1 THEN 1 ELSE 2].msg]]

\* MIDIFile::gen_size (self.sequence.len() as u32)
gen_size(self, checks) ==
    gen_midi_file_size(FromNat(Len(self.sequence)), checks)

RECURSIVE EventBytes(_)
EventBytes(events) ==
    IF events = <<>> THEN <<>>
    ELSE MIDIChannelVoiceMessage_write_buffer(Head(events)) \o EventBytes(Tail(events))

\* MIDIFile::write_buffer on a sink that accepts every byte: the bytes handed
\* to the sink, and whether the call panicked on the way
MIDIFile_write_buffer(self, checks) ==
    LET header == MIDIHeader_write_buffer(gen_header(self))
        track_header == gen_track_header(self, checks)
        track == gen_track(self, checks)
    IN  IF track_header.panicked
        THEN [panicked |-> TRUE, bytes |-> header]
        ELSE LET th == MIDITrackHeader_write_buffer(track_header.header)
             IN  IF track.panicked
                 THEN [panicked |-> TRUE, bytes |-> header \o th]
                 ELSE [panicked |-> FALSE,
                       bytes |-> header \o th \o EventBytes(track.events)]

----------------------------------------------------------------------------
(* midi_file.rs: gen_hash.  A String is a sequence of one-character strings *)

DigitChar(d) == <<"0", "1", "2", "3", "4", "5", "6", "7", "8", "9">>[d + 1]

\* u32 / 10 and u32 % 10 on the limbs
Div10(u) ==
    LET t == (u.hi % 10) * Limb + u.lo
    IN  [quot |-> U32(u.hi \div 10, t \div 10), rem |-> t % 10]

\* u32::to_string: the decimal digits, most significant first
RECURSIVE u32_to_string(_)
u32_to_string(u) ==
    IF u.hi = 0 /\ u.lo < 10
    THEN <<DigitChar(u.lo)>>
    ELSE u32_to_string(Div10(u).quot) \o <<DigitChar(Div10(u).rem)>>

RECURSIVE Join(_, _)
Join(strings, sep) ==
    IF Len(strings) = 0 THEN <<>>
    ELSE IF Len(strings) = 1 THEN strings[1]
    ELSE strings[1] \o sep \o Join(Tail(strings), sep)

\* mutant: the numbers are joined with a separator
gen_hash_Separated(self, checks) ==
    LET n == Len(self.sequence)
        numbers == [i \in 1..n |-> MIDINote_convert(self.sequence[i], checks)]
    IN  IF \E i \in 1..n : numbers[i].panicked
        THEN [panicked |-> TRUE]
        ELSE [panicked |-> FALSE,
              value |-> Join([i \in 1..n |-> u32_to_string(numbers[i].value)], <<"-">>)]

\* MIDIFile::gen_hash
gen_hash(self, checks) ==
    LET n == Len(self.sequence)
        numbers == [i \in 1..n |-> MIDINote_convert(self.sequence[i], checks)]
    IN  IF \E i \in 1..n : numbers[i].panicked
        THEN [panicked |-> TRUE]
        ELSE [panicked |-> FALSE,
              value |-> Join([i \in 1..n |-> u32_to_string(numbers[i].value)], <<>>)]

----------------------------------------------------------------------------
(* Inputs the specifications draw from *)

NoArgs == <<>>
NoFile == <<>>
NoResult == [op |-> "none"]

\* octaves: ordinary ones, ones whose note number leaves 0..127 or one byte,
\* and the ones around the point where the u32 arithmetic overflows
Octaves ==
    {FromNat(0), FromNat(4), FromNat(9), FromNat(20),
     FromNat(357913940), FromNat(357913941), U32Max}

MsgNotes == {MIDINote(t, o) : t \in MIDINoteType, o \in Octaves}

MsgArgs ==
    [delta_time : {0, 255}, note : MsgNotes, velocity : {0, 100, 127, 128},
     status : MIDIStatus, channel : {0, 7, 15, 16}]

\* an ordinary note, a rest, and a note whose number overflows 32 bits
FileNotes ==
    {MIDINote("C", FromNat(4)), MIDINote("Rest", FromNat(0)),
     MIDINote("E", FromNat(357913940))}

Sequences == UNION {[1..n -> FileNotes] : n \in 0..MaxLen}

\* (format, tracks, division): the recommended header, and headers whose
\* fields need both bytes or whose division does not fit the one-byte delta
FileHeaders ==
    {<<"Format0", 1, 1>>, <<"Format1", 258, 96>>, <<"Format2", 1, 511>>}

\* note counts: small ones and the ones around the points where 6n+1 and
\* 6n+23 stop fitting in 32 bits
NoteCounts ==
    {FromNat(n) : n \in 0..40}
        \cup {FromNat(n) : n \in 715827877..715827884}
        \cup {U32(Limb - 1, Limb - 2), U32Max}

----------------------------------------------------------------------------
(* Spec: one MIDIFile and one sink *)

Init ==
    /\ overflow_checks \in BOOLEAN
    /\ args = NoArgs
    /\ \E sequence \in Sequences, h \in FileHeaders :
            file = MIDIFile_new(sequence, h[1], h[2], h[3])
    /\ target = <<>>
    /\ writes = 0
    /\ result = NoResult

GenHash ==
    /\ result' = [op |-> "gen_hash", ret |-> gen_hash(file, overflow_checks)]
    /\ UNCHANGED <<overflow_checks, args, file, target, writes>>

GenHeader ==
    /\ result' = [op |-> "gen_header", ret |-> gen_header(file)]
    /\ UNCHANGED <<overflow_checks, args, file, target, writes>>

GenTrackSize ==
    /\ result' = [op |-> "gen_track_size", ret |-> gen_track_size(file, overflow_checks)]
    /\ UNCHANGED <<overflow_checks, args, file, target, writes>>

GenTrackHeader ==
    /\ result' = [op |-> "gen_track_header", ret |-> gen_track_header(file, overflow_checks)]
    /\ UNCHANGED <<overflow_checks, args, file, target, writes>>

\* mutant: gen_track takes the notes out of the file
GenTrack_Consuming ==
    /\ result' = [op |-> "gen_track", ret |-> gen_track(file, overflow_checks)]
    /\ file' = [file EXCEPT !.sequence = <<>>]
    /\ UNCHANGED <<overflow_checks, args, target, writes>>

GenTrack ==
    /\ result' = [op |-> "gen_track", ret |-> gen_track(file, overflow_checks)]
    /\ UNCHANGED <<overflow_checks, args, file, target, writes>>

GenSize ==
    /\ result' = [op |-> "gen_size", ret |-> gen_size(file, overflow_checks)]
    /\ UNCHANGED <<overflow_checks, args, file, target, writes>>

\* MIDIFile::write_buffer(&mut target)
WriteBuffer ==
    /\ writes < MaxWrites
    /\ LET w == MIDIFile_write_buffer(file, overflow_checks)
       IN  /\ target' = target \o w.bytes
           /\ result' = [op |-> "write_buffer", panicked |-> w.panicked,
                         from |-> Len(target)]
    /\ writes' = writes + 1
    /\ UNCHANGED <<overflow_checks, args, file>>

\* MIDIFile::gen_file: a fresh Vec sized by gen_size, then write_buffer into it
GenFile ==
    /\ LET size == gen_size(file, overflow_checks)
           w == MIDIFile_write_buffer(file, overflow_checks)
       IN  result' =
              IF size.panicked \/ w.panicked
              THEN [op |-> "gen_file", panicked |-> TRUE]
              ELSE [op |-> "gen_file", panicked |-> FALSE, buffer |-> w.bytes]
    /\ UNCHANGED <<overflow_checks, args, file, target, writes>>

Next ==
    \/ GenHash
    \/ GenHeader
    \/ GenTrackSize
    \/ GenTrackHeader
    \/ GenTrack
    \/ GenSize
    \/ WriteBuffer
    \/ GenFile

Spec == Init /\ [][Next]_vars

----------------------------------------------------------------------------
(* SpecMsg: one note and one channel voice message *)

InitMsg ==
    /\ overflow_checks \in BOOLEAN
    /\ args \in MsgArgs
    /\ file = NoFile
    /\ target = <<>>
    /\ writes = 0
    /\ result = NoResult

\* note.convert()
Convert ==
    /\ result' = [op |-> "convert", ret |-> MIDINote_convert(args.note, overflow_checks)]
    /\ UNCHANGED <<overflow_checks, args, file, target, writes>>

\* MIDIChannelVoiceMessage::new(delta_time, &note, velocity, status, channel)
NewMessage ==
    /\ result' = [op |-> "new",
                  ret |-> MIDIChannelVoiceMessage_new(args.delta_time, args.note,
                              args.velocity, args.status, args.channel,
                              overflow_checks)]
    /\ UNCHANGED <<overflow_checks, args, file, target, writes>>

\* event.write_buffer(&mut target) on the message just constructed
WriteMessage ==
    /\ result.op = "new"
    /\ ~result.ret.panicked
    /\ writes < MaxWrites
    /\ target' = target \o MIDIChannelVoiceMessage_write_buffer(result.ret.msg)
    /\ writes' = writes + 1
    /\ result' = [op |-> "msg_write_buffer", msg |-> result.ret.msg,
                  from |-> Len(target)]
    /\ UNCHANGED <<overflow_checks, args, file>>

NextMsg ==
    \/ Convert
    \/ NewMessage
    \/ WriteMessage

SpecMsg == InitMsg /\ [][NextMsg]_vars

----------------------------------------------------------------------------
(* SpecSize: the size functions on a note count *)

InitSize ==
    /\ overflow_checks \in BOOLEAN
    /\ \E n \in NoteCounts : args = [num_notes |-> n]
    /\ file = NoFile
    /\ target = <<>>
    /\ writes = 0
    /\ result = NoResult

GenMidiTrackSize ==
    /\ result' = [op |-> "gen_midi_track_size",
                  ret |-> gen_midi_track_size(args.num_notes, overflow_checks)]
    /\ UNCHANGED <<overflow_checks, args, file, target, writes>>

GenMidiFileSize ==
    /\ result' = [op |-> "gen_midi_file_size",
                  ret |-> gen_midi_file_size(args.num_notes, overflow_checks)]
    /\ UNCHANGED <<overflow_checks, args, file, target, writes>>

NextSize ==
    \/ GenMidiTrackSize
    \/ GenMidiFileSize

SpecSize == InitSize /\ [][NextSize]_vars

----------------------------------------------------------------------------
(* Properties *)

\* the bytes the last write call appended to the sink
Written == SubSeq(target, result.from + 1, Len(target))

\* 6 * n as an exact (wide) number, by repeated addition
SixTimes(n) == WideAdd(WideAdd(WideAdd(n, n), WideAdd(n, n)), WideAdd(n, n))

\* 6n + 1 and 6n + 23 as exact numbers
ExactTrackSize(n) == WideAdd(SixTimes(n), FromNat(1))
ExactFileSize(n) == WideAdd(SixTimes(n), FromNat(23))

\* 12 * (octave + 1) + ordinal(class) as an exact number
NoteNumber(note) ==
    WideAdd(WideMul(WideAdd(note.octave, FromNat(1)), 12),
            FromNat(Ordinal(note.note_type)))

\* C1: whenever write_buffer returns, the number of bytes it wrote to the sink
\* equals gen_size() of the file, for every sequence length including 0.
C1_WrittenEqualsGenSize ==
    (result.op = "write_buffer" /\ ~result.panicked) =>
        LET size == gen_size(file, overflow_checks)
        IN  /\ ~size.panicked
            /\ size.value = FromNat(Len(Written))

\* C2: whenever write_buffer returns, the 32-bit big-endian length field of the
\* track header it wrote (bytes 18..21 of the output) equals the number of
\* bytes it wrote after that header.
C2_TrackLengthFieldExact ==
    (result.op = "write_buffer" /\ ~result.panicked) =>
        LET w == Written
        IN  /\ Len(w) >= 22
            /\ U32(w[19] * 256 + w[20], w[21] * 256 + w[22]) = FromNat(Len(w) - 22)

\* C3 as stated: for every 32-bit note count n, gen_midi_track_size(n) returns
\* 6n+1 and gen_midi_file_size(n) returns 6n+23, with no overflow or panic.
C3_SizeFormulasAllCounts ==
    /\ result.op = "gen_midi_track_size" =>
          /\ ~result.ret.panicked
          /\ ~result.ret.wrapped
          /\ result.ret.value = ExactTrackSize(args.num_notes)
    /\ result.op = "gen_midi_file_size" =>
          /\ ~result.ret.panicked
          /\ ~result.ret.wrapped
          /\ result.ret.value = ExactFileSize(args.num_notes)

\* C3 amended: gen_midi_track_size(n) returns 6n+1 for every n whose 6n+1 fits
\* in 32 bits, and gen_midi_file_size(n) returns 6n+23 for every n whose 6n+23
\* fits in 32 bits.
C3_SizeFormulas ==
    /\ (result.op = "gen_midi_track_size" /\ Fits(ExactTrackSize(args.num_notes))) =>
          /\ ~result.ret.panicked
          /\ ~result.ret.wrapped
          /\ result.ret.value = ExactTrackSize(args.num_notes)
    /\ (result.op = "gen_midi_file_size" /\ Fits(ExactFileSize(args.num_notes))) =>
          /\ ~result.ret.panicked
          /\ ~result.ret.wrapped
          /\ result.ret.value = ExactFileSize(args.num_notes)

\* C3 witness: the file size of the largest count whose file size still fits
\* (715827878 notes, 4294967291 bytes) has been computed.
C3_Witness ==
    /\ result.op = "gen_midi_file_size"
    /\ args.num_notes = FromNat(715827878)
    /\ ~result.ret.panicked
    /\ result.ret.value = U32(Limb - 1, Limb - 5)

\* the positions of the events of a track that carry an explicit status byte
Explicit(events) == {k \in 1..Len(events) : events[k].status # 0}

\* exactly one explicit status, on the first event, and it is NoteOn on
\* channel 0; no event has the NoteOff nibble
OneLeadingNoteOn(events) ==
    /\ Cardinality(Explicit(events)) = 1
    /\ Explicit(events) = {1}
    /\ events[1].status = 144
    /\ \A k \in 1..Len(events) : events[k].status \div 16 # 8

\* C4 as stated: the event list of every sequence has exactly one event with
\* an explicit status, the first, which is NoteOn on channel 0 (0x90).
C4_OneStatusEverySequence ==
    (result.op = "gen_track" /\ ~result.ret.panicked) =>
        OneLeadingNoteOn(result.ret.events)

\* C4 amended: the event list of every non-empty sequence has exactly one
\* event with an explicit status, the first, which is NoteOn on channel 0;
\* every later event has status 0 and none is NoteOff.  The empty sequence
\* yields no event and so no status byte at all.
C4_OneStatusNonEmpty ==
    (result.op = "gen_track" /\ ~result.ret.panicked) =>
        IF Len(file.sequence) = 0
        THEN result.ret.events = <<>>
        ELSE OneLeadingNoteOn(result.ret.events)

\* C4 witness: a track of at least two notes, one of them a rest.
C4_Witness ==
    /\ result.op = "gen_track"
    /\ ~result.ret.panicked
    /\ Len(file.sequence) >= 2
    /\ \E i \in 1..Len(file.sequence) : file.sequence[i].note_type = "Rest"
    /\ Len(result.ret.events) = 2 * Len(file.sequence)

C6_RestSentinel ==
    (result.op = "convert" /\ args.note.note_type = "Rest") =>
        /\ ~result.ret.panicked
        /\ result.ret.value = U32(65535, 65535)
        /\ \A v \in 0..128 : result.ret.value # FromNat(v)

\* C6 witness: a Rest with the largest octave has been converted.
C6_Witness ==
    /\ result.op = "convert"
    /\ args.note.note_type = "Rest"
    /\ args.note.octave = U32(65535, 65535)
    /\ ~result.ret.panicked

\* C7: convert returns a value for every pitch class and every 32-bit octave,
\* without panicking and without an arithmetic overflow.
C7_ConvertTotal ==
    result.op = "convert" => (~result.ret.panicked /\ ~result.ret.wrapped)

\* C8: a message made from a Rest has velocity 0 whatever velocity was
\* supplied; a message made from any other pitch has the supplied velocity.
C8_RestVelocityZero ==
    (result.op = "new" /\ ~result.ret.panicked) =>
        IF args.note.note_type = "Rest"
        THEN result.ret.msg.velocity = 0
        ELSE result.ret.msg.velocity = args.velocity

\* C8 witness: a message was made from a Rest with a non-zero velocity.
C8_Witness ==
    /\ result.op = "new"
    /\ ~result.ret.panicked
    /\ args.note.note_type = "Rest"
    /\ args.velocity = 100
    /\ result.ret.msg.velocity = 0

\* C9: new aborts exactly when channel >= 16 or velocity >= 128; with
\* channel <= 15 and velocity <= 127 it always yields a message.
C9_AbortsIffInvalid ==
    result.op = "new" =>
        (result.ret.panicked <=> (args.channel >= 16 \/ args.velocity >= 128))

\* C10: for a kind other than RunningStatus the stored status is
\* nibble * 16 + channel, at least 0x80 and never 0; for RunningStatus it is 0;
\* write_buffer writes the status byte (second of four bytes) exactly when the
\* kind is not RunningStatus, and three bytes otherwise.
C10_StatusByte ==
    /\ (result.op = "new" /\ ~result.ret.panicked) =>
          IF args.status = "RunningStatus"
          THEN result.ret.msg.status = 0
          ELSE /\ result.ret.msg.status = StatusNibble(args.status) * 16 + args.channel
               /\ result.ret.msg.status >= 128
               /\ (args.status = "NoteOn" /\ args.channel = 0) =>
                      result.ret.msg.status = 144
    /\ result.op = "msg_write_buffer" =>
          IF args.status = "RunningStatus"
          THEN Len(Written) = 3
          ELSE /\ Len(Written) = 4
               /\ Written[2] = StatusNibble(args.status) * 16 + args.channel

\* C10 witness: a NoteOn message on channel 15 has been written, as four
\* bytes the second of which is 0x9F.
C10_Witness ==
    /\ result.op = "msg_write_buffer"
    /\ args.status = "NoteOn"
    /\ args.channel = 15
    /\ Len(Written) = 4
    /\ Written[2] = 159

----------------------------------------------------------------------------
(* Properties of the file layout *)

\* the number of bytes one stored event occupies on the wire
EventSize(e) == IF e.status # 0 THEN 4 ELSE 3

\* offset (0-based) in the file of event k of a track
RECURSIVE EventOffset(_, _)
EventOffset(events, k) ==
    IF k = 1 THEN 22
    ELSE EventOffset(events, k - 1) + EventSize(events[k - 1])

\* the bytes w hold event e at 0-based offset off: delta-time, status if
\* stored, note, velocity
EventAt(w, off, e) ==
    /\ Len(w) >= off + EventSize(e)
    /\ w[off + 1] = e.delta_time
    /\ e.status # 0 => w[off + 2] = e.status
    /\ w[off + EventSize(e) - 1] = e.note
    /\ w[off + EventSize(e)] = e.velocity

\* C11: the output of write_buffer is 'MThd', 00 00 00 06, the format (0, 1
\* or 2), the track count and the division as big-endian 16-bit words, then
\* 'MTrk' and the big-endian 32-bit track length at offsets 14..21, then the
\* events of gen_track in list order from offset 22 to the end.
C11_FileLayout ==
    (result.op = "write_buffer" /\ ~result.panicked) =>
        LET w == Written
            events == gen_track(file, overflow_checks).events
            size == gen_track_size(file, overflow_checks).value
            n == Len(events)
        IN  /\ Len(w) >= 22
            /\ SubSeq(w, 1, 8) = <<77, 84, 104, 100, 0, 0, 0, 6>>
            /\ w[9] = 0
            /\ w[10] = (CASE file.format = "Format0" -> 0
                          [] file.format = "Format1" -> 1
                          [] file.format = "Format2" -> 2)
            /\ w[11] * 256 + w[12] = file.tracks
            /\ w[13] * 256 + w[14] = file.division
            /\ SubSeq(w, 15, 18) = <<77, 84, 114, 107>>
            /\ U32(w[19] * 256 + w[20], w[21] * 256 + w[22]) = size
            /\ \A k \in 1..n : EventAt(w, EventOffset(events, k), events[k])
            /\ Len(w) = IF n = 0 THEN 22
                        ELSE EventOffset(events, n) + EventSize(events[n])

\* C11 witness: a file of two notes with a two-byte track count has been
\* written.
C11_Witness ==
    /\ result.op = "write_buffer"
    /\ ~result.panicked
    /\ Len(file.sequence) = 2
    /\ file.tracks = 258
    /\ Len(Written) = 35

----------------------------------------------------------------------------
(* SpecHash: two MIDIFiles, `file` and `args.other`, and their hashes *)

\* notes numbered 12, 121 and 212
HashNotes ==
    {MIDINote("C", FromNat(0)), MIDINote("CSharp", FromNat(9)),
     MIDINote("GSharp", FromNat(16))}

HashSequences == UNION {[1..n -> HashNotes] : n \in 0..MaxLen}

NotCalled == [called |-> FALSE]

InitHash ==
    /\ overflow_checks \in BOOLEAN
    /\ \E s1 \in HashSequences, s2 \in HashSequences, h \in FileHeaders :
          /\ file = MIDIFile_new(s1, "Format0", 1, 1)
          /\ args = [other |-> MIDIFile_new(s2, h[1], h[2], h[3])]
    /\ target = <<>>
    /\ writes = 0
    /\ result = [op |-> "gen_hash", mine |-> NotCalled, other |-> NotCalled]

\* file.gen_hash()
GenHashMine ==
    /\ result' = [result EXCEPT !.mine =
                     [called |-> TRUE, ret |-> gen_hash(file, overflow_checks)]]
    /\ UNCHANGED <<overflow_checks, args, file, target, writes>>

\* args.other.gen_hash()
GenHashOther ==
    /\ result' = [result EXCEPT !.other =
                     [called |-> TRUE, ret |-> gen_hash(args.other, overflow_checks)]]
    /\ UNCHANGED <<overflow_checks, args, file, target, writes>>

NextHash ==
    \/ GenHashMine
    \/ GenHashOther

SpecHash == InitHash /\ [][NextHash]_vars

----------------------------------------------------------------------------
(* Properties of gen_hash *)

BothHashed ==
    /\ result.op = "gen_hash"
    /\ result.mine.called /\ ~result.mine.ret.panicked
    /\ result.other.called /\ ~result.other.ret.panicked

\* the value a decimal text denotes, digit by digit, or -1
RECURSIVE DecimalValue(_)
DecimalValue(text) ==
    IF Len(text) = 0 THEN 0
    ELSE LET last == text[Len(text)]
             digit == CHOOSE d \in 0..9 : DigitChar(d) = last
         IN  DecimalValue(SubSeq(text, 1, Len(text) - 1)) * 10 + digit

\* text is the decimal numeral of the u32 u: digits only, no leading zero
IsDecimalOf(text, u) ==
    /\ Len(text) >= 1
    /\ \A i \in 1..Len(text) : \E d \in 0..9 : text[i] = DigitChar(d)
    /\ Len(text) > 1 => text[1] # "0"
    /\ Len(text) <= 9
    /\ FromNat(DecimalValue(text)) = u

\* hash is the texts of the note numbers of sequence, one after the other
RECURSIVE IsConcatenation(_, _, _)
IsConcatenation(hash, sequence, checks) ==
    IF Len(sequence) = 0 THEN Len(hash) = 0
    ELSE \E k \in 1..Len(hash) :
            /\ IsDecimalOf(SubSeq(hash, 1, k),
                           MIDINote_convert(sequence[1], checks).value)
            /\ IsConcatenation(SubSeq(hash, k + 1, Len(hash)), Tail(sequence), checks)

\* C12: gen_hash returns the decimal texts of the note numbers, in sequence
\* order and with nothing between them, so two MIDIFiles with equal sequences
\* have equal hashes whatever their format, tracks and division.
C12_HashIsConcatenation ==
    BothHashed =>
        /\ IsConcatenation(result.mine.ret.value, file.sequence, overflow_checks)
        /\ IsConcatenation(result.other.ret.value, args.other.sequence, overflow_checks)
        /\ file.sequence = args.other.sequence
               => result.mine.ret.value = result.other.ret.value

C12_Witness ==
    /\ BothHashed
    /\ file.sequence = args.other.sequence
    /\ file.division # args.other.division
    /\ file.format # args.other.format
    /\ result.mine.ret.value = <<"1", "2", "1", "2", "1", "2", "1", "2">>

\* C13: two distinct note sequences of equal length have distinct hashes.
C13_EqualLengthDistinctHashes ==
    (/\ BothHashed
     /\ Len(file.sequence) = Len(args.other.sequence)
     /\ file.sequence # args.other.sequence)
        => result.mine.ret.value # result.other.ret.value

\* C14: no two non-identical note sequences, of whatever lengths, have the
\* same hash.
C14_NoTwoSequencesShareAHash ==
    (BothHashed /\ result.mine.ret.value = result.other.ret.value)
        => file.sequence = args.other.sequence

----------------------------------------------------------------------------
(* Text.  A &str is a sequence of characters; a character is a string that  *)
(* holds it, except the flat sign, which goes by its code point.            *)

FlatSign == "U+266D"

UpperCase ==
    <<"A", "B", "C", "D", "E", "F", "G", "H", "I", "J", "K", "L", "M",
      "N", "O", "P", "Q", "R", "S", "T", "U", "V", "W", "X", "Y", "Z">>

LowerCase ==
    <<"a", "b", "c", "d", "e", "f", "g", "h", "i", "j", "k", "l", "m",
      "n", "o", "p", "q", "r", "s", "t", "u", "v", "w", "x", "y", "z">>

\* char::to_lowercase on the characters of the model
char_to_lowercase(c) ==
    IF \E i \in 1..26 : UpperCase[i] = c
    THEN LowerCase[CHOOSE i \in 1..26 : UpperCase[i] = c]
    ELSE c

\* str::to_lowercase
to_lowercase(s) == [i \in 1..Len(s) |-> char_to_lowercase(s[i])]

\* str::split(sep): the pieces between the separators, at least one piece
RECURSIVE split(_, _)
split(s, sep) ==
    IF \A i \in 1..Len(s) : s[i] # sep
    THEN <<s>>
    ELSE LET i == CHOOSE j \in 1..Len(s) :
                      s[j] = sep /\ \A k \in 1..(j - 1) : s[k] # sep
         IN  <<SubSeq(s, 1, i - 1)>> \o split(SubSeq(s, i + 1, Len(s)), sep)

IsDigit(c) == \E d \in 0..9 : DigitChar(d) = c

DigitOf(c) == CHOOSE d \in 0..9 : DigitChar(d) = c

\* the accumulation loop of u32::from_str: digit by digit, checked
RECURSIVE parse_digits(_, _)
parse_digits(digits, acc) ==
    IF Len(digits) = 0 THEN [ok |-> TRUE, value |-> acc]
    ELSE IF ~IsDigit(digits[1])
    THEN [ok |-> FALSE, err |-> [kind |-> "InvalidDigit"]]
    ELSE LET mul == WideMul(acc, 10)
             sum == WideAdd(mul, FromNat(DigitOf(digits[1])))
         IN  IF ~Fits(mul) \/ ~Fits(sum)
             THEN [ok |-> FALSE, err |-> [kind |-> "PosOverflow"]]
             ELSE parse_digits(Tail(digits), sum)

\* str::parse::<u32>
parse_u32(s) ==
    IF Len(s) = 0 THEN [ok |-> FALSE, err |-> [kind |-> "Empty"]]
    ELSE IF Len(s) = 1 /\ s[1] \in {"+", "-"}
    THEN [ok |-> FALSE, err |-> [kind |-> "InvalidDigit"]]
    ELSE IF s[1] = "+" THEN parse_digits(Tail(s), FromNat(0))
    ELSE parse_digits(s, FromNat(0))

----------------------------------------------------------------------------
(* midi_note.rs: parsing *)

\* the lower-case spellings of a note type
Spellings(t) ==
    CASE t = "C" ->
        {<<"b", "s", "h", "a", "r", "p">>,
         <<"b", "#">>,
         <<"c">>}
      [] t = "CSharp" ->
        {<<"c", "s", "h", "a", "r", "p">>,
         <<"c", "#">>,
         <<"d", "f", "l", "a", "t">>,
         <<"d", FlatSign>>,
         <<"d", "b">>}
      [] t = "D" ->
        {<<"d">>}
      [] t = "DSharp" ->
        {<<"d", "s", "h", "a", "r", "p">>,
         <<"d", "#">>,
         <<"e", "f", "l", "a", "t">>,
         <<"e", FlatSign>>,
         <<"e", "b">>}
      [] t = "E" ->
        {<<"e">>,
         <<"f", "f", "l", "a", "t">>,
         <<"f", FlatSign>>,
         <<"f", "b">>}
      [] t = "F" ->
        {<<"e", "s", "h", "a", "r", "p">>,
         <<"e", "#">>,
         <<"f">>}
      [] t = "FSharp" ->
        {<<"f", "s", "h", "a", "r", "p">>,
         <<"f", "#">>,
         <<"g", "f", "l", "a", "t">>,
         <<"g", FlatSign>>,
         <<"g", "b">>}
      [] t = "G" ->
        {<<"g">>}
      [] t = "GSharp" ->
        {<<"g", "s", "h", "a", "r", "p">>,
         <<"g", "#">>,
         <<"a", "f", "l", "a", "t">>,
         <<"a", FlatSign>>,
         <<"a", "b">>}
      [] t = "A" ->
        {<<"a">>}
      [] t = "ASharp" ->
        {<<"a", "s", "h", "a", "r", "p">>,
         <<"a", "#">>,
         <<"b", "f", "l", "a", "t">>,
         <<"b", FlatSign>>,
         <<"b", "b">>}
      [] t = "B" ->
        {<<"c", "f", "l", "a", "t">>,
         <<"c", FlatSign>>,
         <<"c", "b">>,
         <<"b">>}
      [] t = "Rest" ->
        {<<"r", "e", "s", "t">>,
         <<"e", "m", "p", "t", "y">>}

\* mutant: the text is matched as given
MIDINoteType_from_str_CaseSensitive(s) ==
    IF \E t \in MIDINoteType : s \in Spellings(t)
    THEN [ok |-> TRUE, value |-> CHOOSE t \in MIDINoteType : s \in Spellings(t)]
    ELSE [ok |-> FALSE, err |-> [kind |-> "UnknownNoteType", input |-> s]]

\* MIDINoteType::from_str
MIDINoteType_from_str(s) ==
    LET lower == to_lowercase(s)
    IN  IF \E t \in MIDINoteType : lower \in Spellings(t)
        THEN [ok |-> TRUE,
              value |-> CHOOSE t \in MIDINoteType : lower \in Spellings(t)]
        ELSE [ok |-> FALSE, err |-> [kind |-> "UnknownNoteType", input |-> s]]

\* mutant: the note type is parsed before the parts are counted
MIDINote_from_str_TypeFirst(s) ==
    LET split_pair == split(s, ":")
        note_type == MIDINoteType_from_str(split_pair[1])
    IN  IF ~note_type.ok
        THEN [ok |-> FALSE, err |-> note_type.err]
        ELSE IF Len(split_pair) # 2
        THEN [ok |-> FALSE, err |-> [kind |-> "InvalidNoteFormat", input |-> s]]
        ELSE LET octave == parse_u32(split_pair[2])
             IN  IF ~octave.ok
                 THEN [ok |-> FALSE,
                       err |-> [kind |-> "InvalidOctave", source |-> octave.err]]
                 ELSE [ok |-> TRUE,
                       value |-> MIDINote(note_type.value, octave.value)]

\* mutant: the octave is parsed before the note type
MIDINote_from_str_OctaveFirst(s) ==
    LET split_pair == split(s, ":")
    IN  IF Len(split_pair) # 2
        THEN [ok |-> FALSE, err |-> [kind |-> "InvalidNoteFormat", input |-> s]]
        ELSE LET note_type == MIDINoteType_from_str(split_pair[1])
                 octave == parse_u32(split_pair[2])
             IN  IF ~octave.ok
                 THEN [ok |-> FALSE,
                       err |-> [kind |-> "InvalidOctave", source |-> octave.err]]
                 ELSE IF ~note_type.ok
                 THEN [ok |-> FALSE, err |-> note_type.err]
                 ELSE [ok |-> TRUE,
                       value |-> MIDINote(note_type.value, octave.value)]

\* MIDINote::from_str
MIDINote_from_str(s) ==
    LET split_pair == split(s, ":")
    IN  IF Len(split_pair) # 2
        THEN [ok |-> FALSE, err |-> [kind |-> "InvalidNoteFormat", input |-> s]]
        ELSE LET note_type == MIDINoteType_from_str(split_pair[1])
                 octave == parse_u32(split_pair[2])
             IN  IF ~note_type.ok
                 THEN [ok |-> FALSE, err |-> note_type.err]
                 ELSE IF ~octave.ok
                 THEN [ok |-> FALSE,
                       err |-> [kind |-> "InvalidOctave", source |-> octave.err]]
                 ELSE [ok |-> TRUE,
                       value |-> MIDINote(note_type.value, octave.value)]

\* the derived Ord of MIDINote: note_type first, octave second
NoteLess(a, b) ==
    \/ Ordinal(a.note_type) < Ordinal(b.note_type)
    \/ /\ a.note_type = b.note_type
       /\ \/ a.octave.hi < b.octave.hi
          \/ a.octave.hi = b.octave.hi /\ a.octave.lo < b.octave.lo

\* BTreeSet::insert; the set is the sequence of its elements in iteration order
BTreeSet_insert(set, note) ==
    IF \E i \in 1..Len(set) : set[i] = note
    THEN set
    ELSE LET below == SelectSeq(set, LAMBDA x : NoteLess(x, note))
             above == SelectSeq(set, LAMBDA x : NoteLess(note, x))
         IN  below \o <<note>> \o above

RECURSIVE BTreeSet_from_iter(_)
BTreeSet_from_iter(notes) ==
    IF Len(notes) = 0 THEN <<>>
    ELSE BTreeSet_insert(BTreeSet_from_iter(SubSeq(notes, 1, Len(notes) - 1)),
                         notes[Len(notes)])

\* mutant: the notes are kept as they come
MIDINoteSet_from_str_Vec(s) ==
    LET pairs == split(s, ",")
        parsed == [i \in 1..Len(pairs) |-> MIDINote_from_str(pairs[i])]
    IN  IF \E i \in 1..Len(pairs) : ~parsed[i].ok
        THEN LET idx == CHOOSE i \in 1..Len(pairs) :
                            ~parsed[i].ok /\ \A j \in 1..(i - 1) : parsed[j].ok
             IN  [ok |-> FALSE,
                  err |-> [kind |-> "ParseMIDINote", index |-> idx - 1,
                           source |-> parsed[idx].err]]
        ELSE [ok |-> TRUE,
              value |-> [i \in 1..Len(pairs) |-> parsed[i].value]]

\* mutant: the error is that of the last invalid element
MIDINoteSet_from_str_LastError(s) ==
    LET pairs == split(s, ",")
        parsed == [i \in 1..Len(pairs) |-> MIDINote_from_str(pairs[i])]
    IN  IF \E i \in 1..Len(pairs) : ~parsed[i].ok
        THEN LET idx == CHOOSE i \in 1..Len(pairs) :
                            ~parsed[i].ok
                            /\ \A j \in (i + 1)..Len(pairs) : parsed[j].ok
             IN  [ok |-> FALSE,
                  err |-> [kind |-> "ParseMIDINote", index |-> idx - 1,
                           source |-> parsed[idx].err]]
        ELSE [ok |-> TRUE,
              value |-> BTreeSet_from_iter([i \in 1..Len(pairs) |-> parsed[i].value])]

\* mutant: empty elements are skipped
MIDINoteSet_from_str_SkipEmpty(s) ==
    LET pairs == SelectSeq(split(s, ","), LAMBDA p : Len(p) > 0)
        parsed == [i \in 1..Len(pairs) |-> MIDINote_from_str(pairs[i])]
    IN  IF \E i \in 1..Len(pairs) : ~parsed[i].ok
        THEN LET idx == CHOOSE i \in 1..Len(pairs) :
                            ~parsed[i].ok /\ \A j \in 1..(i - 1) : parsed[j].ok
             IN  [ok |-> FALSE,
                  err |-> [kind |-> "ParseMIDINote", index |-> idx - 1,
                           source |-> parsed[idx].err]]
        ELSE [ok |-> TRUE,
              value |-> BTreeSet_from_iter([i \in 1..Len(pairs) |-> parsed[i].value])]

\* MIDINoteSet::from_str; collect stops at the first Err
MIDINoteSet_from_str(s) ==
    LET pairs == split(s, ",")
        parsed == [i \in 1..Len(pairs) |-> MIDINote_from_str(pairs[i])]
    IN  IF \E i \in 1..Len(pairs) : ~parsed[i].ok
        THEN LET idx == CHOOSE i \in 1..Len(pairs) :
                            ~parsed[i].ok /\ \A j \in 1..(i - 1) : parsed[j].ok
             IN  [ok |-> FALSE,
                  err |-> [kind |-> "ParseMIDINote", index |-> idx - 1,
                           source |-> parsed[idx].err]]
        ELSE [ok |-> TRUE,
              value |-> BTreeSet_from_iter([i \in 1..Len(pairs) |-> parsed[i].value])]

----------------------------------------------------------------------------
(* lib.rs: parsing of the single-file version of the crate *)

\* the one spelling of a note type
lib_Name(t) ==
    CASE t = "C" -> <<"C">>
      [] t = "CSharp" -> <<"C", "S", "h", "a", "r", "p">>
      [] t = "D" -> <<"D">>
      [] t = "DSharp" -> <<"D", "S", "h", "a", "r", "p">>
      [] t = "E" -> <<"E">>
      [] t = "F" -> <<"F">>
      [] t = "FSharp" -> <<"F", "S", "h", "a", "r", "p">>
      [] t = "G" -> <<"G">>
      [] t = "GSharp" -> <<"G", "S", "h", "a", "r", "p">>
      [] t = "A" -> <<"A">>
      [] t = "ASharp" -> <<"A", "S", "h", "a", "r", "p">>
      [] t = "B" -> <<"B">>

\* MIDINoteType::from_str of lib.rs
lib_MIDINoteType_from_str(s) ==
    IF \E t \in MIDINoteType \ {"Rest"} : s = lib_Name(t)
    THEN [ok |-> TRUE,
          value |-> CHOOSE t \in MIDINoteType \ {"Rest"} : s = lib_Name(t)]
    ELSE [ok |-> FALSE, err |-> [kind |-> "InvalidNoteType"]]

\* MIDINote::from_str of lib.rs
lib_MIDINote_from_str(s) ==
    LET split_pair == split(s, ":")
        note_type == lib_MIDINoteType_from_str(split_pair[1])
    IN  IF ~note_type.ok
        THEN [ok |-> FALSE,
              err |-> [kind |-> "ParseNoteType", source |-> note_type.err]]
        ELSE IF Len(split_pair) < 2
        THEN [ok |-> FALSE, err |-> [kind |-> "MissingOctave"]]
        ELSE LET octave == parse_u32(split_pair[2])
             IN  IF ~octave.ok
                 THEN [ok |-> FALSE,
                       err |-> [kind |-> "ParseOctave", source |-> octave.err]]
                 ELSE IF Len(split_pair) > 2
                 THEN [ok |-> FALSE, err |-> [kind |-> "TrailingCharacters"]]
                 ELSE [ok |-> TRUE,
                       value |-> MIDINote(note_type.value, octave.value)]

\* MIDINoteSequence::from_str of lib.rs
MIDINoteSequence_from_str(s) ==
    LET pairs == split(s, ",")
        parsed == [i \in 1..Len(pairs) |-> lib_MIDINote_from_str(pairs[i])]
    IN  IF \E i \in 1..Len(pairs) : ~parsed[i].ok
        THEN LET idx == CHOOSE i \in 1..Len(pairs) :
                            ~parsed[i].ok /\ \A j \in 1..(i - 1) : parsed[j].ok
             IN  [ok |-> FALSE,
                  err |-> [kind |-> "ParseNote", index |-> idx - 1,
                           source |-> parsed[idx].err]]
        ELSE [ok |-> TRUE,
              value |-> [i \in 1..Len(pairs) |-> parsed[i].value]]

----------------------------------------------------------------------------
(* SpecParse: one text, handed to each of the parsers *)

char_to_uppercase(c) ==
    IF \E i \in 1..26 : LowerCase[i] = c
    THEN UpperCase[CHOOSE i \in 1..26 : LowerCase[i] = c]
    ELSE c

\* every way to write s in upper-case and lower-case letters
RECURSIVE CasePatterns(_)
CasePatterns(s) ==
    IF Len(s) = 0 THEN {<<>>}
    ELSE {<<c>> \o rest : c \in {s[1], char_to_uppercase(s[1])},
                          rest \in CasePatterns(Tail(s))}

\* texts that spell no note type
UnknownClassTexts ==
    {<<"C", "$">>,
     <<"H">>,
     <<>>,
     <<"c", "i", "s">>,
     <<"c", " ">>,
     <<"s", "h", "a", "r", "p">>,
     <<"b", "f", "l", "a", "t", "t">>,
     <<"r", "3", "s", "t">>,
     <<"d", "o">>,
     <<"c", "#", "#">>}

ClassTexts ==
    UNION {CasePatterns(s) : s \in UNION {Spellings(t) : t \in MIDINoteType}}
        \cup UnknownClassTexts

\* texts that u32::from_str accepts
ValidOctaveTexts ==
    {<<"0">>,
     <<"4">>,
     <<"5">>,
     <<"1", "0">>,
     <<"0", "0", "7">>,
     <<"+", "5">>,
     <<"4", "2", "9", "4", "9", "6", "7", "2", "9", "5">>}

\* texts that u32::from_str rejects
InvalidOctaveTexts ==
    {<<>>,
     <<"-", "1">>,
     <<"4", "x">>,
     <<"x">>,
     <<" ", "4">>,
     <<"+">>,
     <<"4", ".", "0">>,
     <<"4", "2", "9", "4", "9", "6", "7", "2", "9", "6">>,
     <<"9", "9", "9", "9", "9", "9", "9", "9", "9", "9", "9">>}

\* class texts that meet every octave text
SomeClassTexts ==
    {<<"C">>,
     <<"d", "B">>,
     <<"R", "e", "s", "t">>,
     <<"C", "$">>,
     <<>>}

\* texts with no colon or with more than one, and texts with empty parts
MalformedNoteTexts ==
    {<<"C">>,
     <<"C", "4">>,
     <<"C", ":", "4", ":", "5">>,
     <<":">>,
     <<":", ":">>,
     <<"C", ":", "4", ":">>,
     <<>>,
     <<"C", "$">>,
     <<"C", "$", ":", "x", ":", "1">>,
     <<"H", ":", "4", ":">>,
     <<"r", "e", "s", "t">>}

NoteTexts ==
    {c \o <<":">> \o o : c \in ClassTexts, o \in {<<"0">>, <<"4">>}}
        \cup {c \o <<":">> \o o : c \in SomeClassTexts,
                                  o \in ValidOctaveTexts \cup InvalidOctaveTexts}
        \cup MalformedNoteTexts

\* elements of the lists: five valid notes (two of them the same note) and
\* three invalid elements
ListElements ==
    {<<"C", ":", "4">>,
     <<"c", ":", "4">>,
     <<"C", ":", "1", "0">>,
     <<"B", ":", "3">>,
     <<"r", "e", "s", "t", ":", "0">>,
     <<>>,
     <<"H", ":", "1">>,
     <<"C", ":", "-", "1">>}

ListTexts ==
    {Join(l, <<",">>) : l \in UNION {[1..n -> ListElements] : n \in 0..MaxLen}}

InitParse ==
    /\ overflow_checks \in BOOLEAN
    /\ args \in [text : ClassTexts \cup NoteTexts \cup ListTexts]
    /\ file = NoFile
    /\ target = <<>>
    /\ writes = 0
    /\ result = NoResult

\* args.text.parse::<MIDINoteType>()
ParseNoteType ==
    /\ result' = [op |-> "MIDINoteType::from_str",
                  ret |-> MIDINoteType_from_str(args.text)]
    /\ UNCHANGED <<overflow_checks, args, file, target, writes>>

\* args.text.parse::<MIDINote>()
ParseNote ==
    /\ result' = [op |-> "MIDINote::from_str",
                  ret |-> MIDINote_from_str(args.text)]
    /\ UNCHANGED <<overflow_checks, args, file, target, writes>>

\* convert() of the note that parse::<MIDINote>() returned
ConvertParsed ==
    /\ result.op = "MIDINote::from_str"
    /\ result.ret.ok
    /\ result' = [op |-> "convert", note |-> result.ret.value,
                  ret |-> MIDINote_convert(result.ret.value, overflow_checks)]
    /\ UNCHANGED <<overflow_checks, args, file, target, writes>>

\* args.text.parse::<MIDINoteSet>()
ParseNoteSet ==
    /\ result' = [op |-> "MIDINoteSet::from_str",
                  ret |-> MIDINoteSet_from_str(args.text)]
    /\ UNCHANGED <<overflow_checks, args, file, target, writes>>

\* args.text.parse::<MIDINoteSequence>()
ParseNoteSequence ==
    /\ result' = [op |-> "MIDINoteSequence::from_str",
                  ret |-> MIDINoteSequence_from_str(args.text)]
    /\ UNCHANGED <<overflow_checks, args, file, target, writes>>

NextParse ==
    \/ ParseNoteType
    \/ ParseNote
    \/ ConvertParsed
    \/ ParseNoteSet
    \/ ParseNoteSequence

SpecParse == InitParse /\ [][NextParse]_vars

----------------------------------------------------------------------------
(* Properties of the parsers *)

Count(s, c) == Cardinality({i \in 1..Len(s) : s[i] = c})

\* the position of the first c in s
Find(s, c) == CHOOSE i \in 1..Len(s) : s[i] = c /\ \A j \in 1..(i - 1) : s[j] # c

\* some spelling of a note type, in some letter case
Recognized(class) ==
    \E t \in MIDINoteType : \E s \in Spellings(t) : class \in CasePatterns(s)

RECURSIVE StripZeros(_)
StripZeros(digits) ==
    IF Len(digits) > 1 /\ digits[1] = "0" THEN StripZeros(Tail(digits))
    ELSE digits

\* a <= b for two numerals of the same length
RECURSIVE NumeralLeq(_, _)
NumeralLeq(a, b) ==
    IF Len(a) = 0 THEN TRUE
    ELSE IF a[1] # b[1] THEN DigitOf(a[1]) < DigitOf(b[1])
    ELSE NumeralLeq(Tail(a), Tail(b))

\* the digits of an unsigned integer text, without sign and leading zeros
Numeral(text) ==
    StripZeros(IF Len(text) > 0 /\ text[1] = "+" THEN Tail(text) ELSE text)

\* text is an unsigned integer of 32 bits: digits, at most one '+' before
\* them, and a value of at most 4294967295
IsUnsigned32(text) ==
    LET digits == IF Len(text) > 0 /\ text[1] = "+" THEN Tail(text) ELSE text
        numeral == StripZeros(digits)
    IN  /\ Len(digits) >= 1
        /\ \A i \in 1..Len(digits) : IsDigit(digits[i])
        /\ \/ Len(numeral) < 10
           \/ /\ Len(numeral) = 10
              /\ NumeralLeq(numeral,
                            <<"4", "2", "9", "4", "9", "6", "7", "2", "9", "5">>)

\* C15: MIDINote::from_str fails with InvalidNoteFormat, carrying the whole
\* input, unless the input has exactly one ':'; else with UnknownNoteType,
\* carrying the text before the ':' as given, when that text spells no note
\* type; else with InvalidOctave when the text after the ':' is not an
\* unsigned integer of 32 bits; and otherwise succeeds with the note type
\* spelled and the octave written.
C15_NoteFromStr ==
    result.op = "MIDINote::from_str" =>
        LET s == args.text
            ret == result.ret
        IN  IF Count(s, ":") # 1
            THEN ~ret.ok /\ ret.err = [kind |-> "InvalidNoteFormat", input |-> s]
            ELSE LET class == SubSeq(s, 1, Find(s, ":") - 1)
                     octave == SubSeq(s, Find(s, ":") + 1, Len(s))
                 IN  IF ~Recognized(class)
                     THEN ~ret.ok
                          /\ ret.err = [kind |-> "UnknownNoteType", input |-> class]
                     ELSE IF ~IsUnsigned32(octave)
                     THEN ~ret.ok /\ ret.err.kind = "InvalidOctave"
                     ELSE /\ ret.ok
                          /\ to_lowercase(class) \in Spellings(ret.value.note_type)
                          /\ u32_to_string(ret.value.octave) = Numeral(octave)

C15_Witness ==
    /\ result.op = "MIDINote::from_str"
    /\ args.text = <<"C", "$", ":", "5">>
    /\ result.ret = [ok |-> FALSE,
                     err |-> [kind |-> "UnknownNoteType", input |-> <<"C", "$">>]]

\* the elements of a list text, each parsed on its own by the parser of notes
\* that goes with the list parser that was called
ElementsParsed ==
    LET pairs == split(args.text, ",")
    IN  [i \in 1..Len(pairs) |->
            IF result.op = "MIDINoteSet::from_str"
            THEN MIDINote_from_str(pairs[i])
            ELSE lib_MIDINote_from_str(pairs[i])]

\* C16: parsing a comma-separated list, as a MIDINoteSet or as a
\* MIDINoteSequence, fails when some element is invalid, with the zero-based
\* index of the first invalid element and the error of that element, whatever
\* follows it; it succeeds only when every element parses, and the sequence
\* then holds the parsed notes in the order of the text.
C16_FirstInvalidElement ==
    result.op \in {"MIDINoteSet::from_str", "MIDINoteSequence::from_str"} =>
        LET parsed == ElementsParsed
            n == Len(parsed)
            invalid == {i \in 1..n : ~parsed[i].ok}
        IN  IF invalid # {}
            THEN LET first == CHOOSE i \in invalid : \A j \in invalid : i <= j
                 IN  /\ ~result.ret.ok
                     /\ result.ret.err.index = first - 1
                     /\ result.ret.err.source = parsed[first].err
            ELSE /\ result.ret.ok
                 /\ result.op = "MIDINoteSequence::from_str"
                        => result.ret.value = [i \in 1..n |-> parsed[i].value]

C16_Witness ==
    /\ result.op = "MIDINoteSet::from_str"
    /\ args.text = <<"C", ":", "4", ",", "H", ":", "1", ",", "C", ":", "-", "1">>
    /\ result.ret = [ok |-> FALSE,
                     err |-> [kind |-> "ParseMIDINote", index |-> 1,
                              source |-> [kind |-> "UnknownNoteType",
                                          input |-> <<"H">>]]]

\* C17: a list text that ends with a comma after k valid elements fails as a
\* MIDINoteSet at index k with InvalidNoteFormat carrying the empty text; the
\* MIDINoteSequence of lib.rs fails at index k too; neither ever succeeds.
C17_TrailingComma ==
    LET k == Count(args.text, ",")
        before == SubSeq(args.text, 1, Len(args.text) - 1)
        trailing == Len(args.text) > 0 /\ args.text[Len(args.text)] = ","
    IN  /\ (/\ result.op = "MIDINoteSet::from_str"
            /\ trailing
            /\ MIDINoteSet_from_str(before).ok)
               => result.ret =
                      [ok |-> FALSE,
                       err |-> [kind |-> "ParseMIDINote", index |-> k,
                                source |-> [kind |-> "InvalidNoteFormat",
                                            input |-> <<>>]]]
        /\ (/\ result.op = "MIDINoteSequence::from_str"
            /\ trailing
            /\ MIDINoteSequence_from_str(before).ok)
               => ~result.ret.ok /\ result.ret.err.index = k

C17_Witness ==
    /\ result.op = "MIDINoteSet::from_str"
    /\ args.text = <<"C", ":", "4", ",", "B", ":", "3", ",">>
    /\ ~result.ret.ok
    /\ result.ret.err.index = 2

\* the order of the notes: note type by its ordinal, then octave
Before(a, b) ==
    \/ Ordinal(a.note_type) < Ordinal(b.note_type)
    \/ /\ Ordinal(a.note_type) = Ordinal(b.note_type)
       /\ a.octave.hi * Limb + a.octave.lo < b.octave.hi * Limb + b.octave.lo

\* the same elements in another order or another number of times
Rearrangements(pairs) ==
    {[i \in 1..Len(pairs) |-> pairs[p[i]]] :
        p \in [1..Len(pairs) -> 1..Len(pairs)]}

\* C18: a valid list parsed as a MIDINoteSet is the set of the notes of its
\* elements: each note once, in the order of Before (neither the order nor
\* the number of times of the text), and every text that lists the same notes
\* gives the same MIDINoteSet.
C18_SetOfDistinctNotes ==
    (result.op = "MIDINoteSet::from_str" /\ result.ret.ok) =>
        LET set == result.ret.value
            pairs == split(args.text, ",")
            notes == {MIDINote_from_str(pairs[i]).value : i \in 1..Len(pairs)}
        IN  /\ {set[i] : i \in 1..Len(set)} = notes
            /\ \A i \in 1..Len(set) : \A j \in 1..Len(set) :
                   i < j => Before(set[i], set[j])
            /\ \A other \in Rearrangements(pairs) :
                   {MIDINote_from_str(other[i]).value : i \in 1..Len(other)} = notes
                       => MIDINoteSet_from_str(Join(other, <<",">>)) = result.ret

C18_Witness ==
    /\ result.op = "MIDINoteSet::from_str"
    /\ args.text = <<"B", ":", "3", ",", "c", ":", "4", ",", "C", ":", "4">>
    /\ result.ret = [ok |-> TRUE,
                     value |-> <<MIDINote("C", FromNat(4)),
                                 MIDINote("B", FromNat(3))>>]

\* the semitone above C of the letters of the scale
LetterSemitone(letter) ==
    CASE letter = "c" -> 0 [] letter = "d" -> 2 [] letter = "e" -> 4
      [] letter = "f" -> 5 [] letter = "g" -> 7 [] letter = "a" -> 9
      [] letter = "b" -> 11

\* the ways to write an accidental and the semitones they add
Accidentals ==
    {[text |-> <<>>, shift |-> 0],
     [text |-> <<"s", "h", "a", "r", "p">>, shift |-> 1],
     [text |-> <<"#">>, shift |-> 1],
     [text |-> <<"f", "l", "a", "t">>, shift |-> -1],
     [text |-> <<FlatSign>>, shift |-> -1],
     [text |-> <<"b">>, shift |-> -1]}

\* the semitones that text spells as a letter and an accidental, in any case
SemitonesSpelled(text) ==
    {(LetterSemitone(letter) + acc.shift) % 12 :
        <<letter, acc>> \in
            {la \in {"c", "d", "e", "f", "g", "a", "b"} \X Accidentals :
                text \in CasePatterns(<<la[1]>> \o la[2].text)}}

SpellsRest(text) ==
    text \in CasePatterns(<<"r", "e", "s", "t">>)
                 \cup CasePatterns(<<"e", "m", "p", "t", "y">>)

\* C19: MIDINoteType::from_str reads a letter of the scale with or without an
\* accidental, in any letter case, as the note type of that semitone, so that
\* enharmonic spellings give one note type; it reads "rest" and "empty" in any
\* case as Rest; it rejects every other text with UnknownNoteType; and a note
\* parsed from a rest spelling and an octave converts to the sentinel.
C19_SpellingsAnyCase ==
    /\ result.op = "MIDINoteType::from_str" =>
          LET semitones == SemitonesSpelled(args.text)
          IN  IF semitones # {}
              THEN result.ret.ok /\ semitones = {Ordinal(result.ret.value)}
              ELSE IF SpellsRest(args.text)
              THEN result.ret.ok /\ result.ret.value = "Rest"
              ELSE result.ret = [ok |-> FALSE,
                                 err |-> [kind |-> "UnknownNoteType",
                                          input |-> args.text]]
    /\ (/\ result.op = "MIDINote::from_str"
        /\ Count(args.text, ":") = 1
        /\ SpellsRest(SubSeq(args.text, 1, Find(args.text, ":") - 1))
        /\ IsUnsigned32(SubSeq(args.text, Find(args.text, ":") + 1, Len(args.text))))
           => result.ret.ok /\ result.ret.value.note_type = "Rest"
    /\ (result.op = "convert" /\ result.note.note_type = "Rest")
           => ~result.ret.panicked /\ result.ret.value = U32Max

C19_Witness ==
    /\ result.op = "MIDINoteType::from_str"
    /\ args.text = <<"D", FlatSign>>
    /\ result.ret = [ok |-> TRUE, value |-> "CSharp"]

----------------------------------------------------------------------------
(* Properties of the MIDIFile as a whole *)

\* the bytes of the k-th write, each write being to a sink of its own
WriteNumber(k) ==
    LET size == Len(target) \div writes
    IN  SubSeq(target, (k - 1) * size + 1, k * size)

EveryWriteTheSame ==
    writes >= 1 =>
        /\ Len(target) = writes * Len(WriteNumber(1))
        /\ \A k \in 1..writes : WriteNumber(k) = WriteNumber(1)
        /\ (result.op = "gen_file" /\ ~result.panicked)
               => result.buffer = WriteNumber(1)

\* C20: no operation of a MIDIFile changes its sequence, format, tracks or
\* division; gen_hash, gen_header, gen_track_size, gen_track_header, gen_track
\* and gen_size write nothing to the sink; and every write of the file, with
\* whatever operations before it and between the writes, puts out the same
\* bytes.
C20_PureOperations ==
    /\ [][/\ file' = file
          /\ result'.op \in {"gen_hash", "gen_header", "gen_track_size",
                             "gen_track_header", "gen_track", "gen_size"}
                 => target' = target /\ writes' = writes]_vars
    /\ []EveryWriteTheSame

C20_Witness ==
    /\ result.op = "gen_track"
    /\ writes = 2
    /\ Len(file.sequence) = 2
    /\ Len(target) = 70

----------------------------------------------------------------------------
(* Properties of the track and of its messages *)

\* C21: when gen_track returns, it returns two events for every note of the
\* sequence, in sequence order: first the attack of the note (delta_time 0,
\* velocity 100, or 0 for a Rest) and then its release (delta_time the low
\* eight bits of the division, velocity 0), both with the note byte of that
\* note; the first attack alone has the status byte 0x90.
C21_TwoEventsPerNote ==
    (result.op = "gen_track" /\ ~result.ret.panicked) =>
        LET events == result.ret.events
            n == Len(file.sequence)
        IN  /\ Len(events) = 2 * n
            /\ \A i \in 1..n :
                  LET note == file.sequence[i]
                      byte == MIDINote_convert(note, overflow_checks).value.lo % 256
                      attack == events[2 * i - 1]
                      release == events[2 * i]
                  IN  /\ attack = [delta_time |-> 0,
                                   status |-> IF i = 1 THEN 144 ELSE 0,
                                   note |-> byte,
                                   velocity |-> IF note.note_type = "Rest"
                                                THEN 0 ELSE 100]
                      /\ release = [delta_time |-> file.division % 256,
                                    status |-> 0,
                                    note |-> byte,
                                    velocity |-> 0]

C21_Witness ==
    /\ result.op = "gen_track"
    /\ ~result.ret.panicked
    /\ file.sequence = <<MIDINote("C", FromNat(4))>>
    /\ file.division = 1
    /\ EventBytes(result.ret.events) = <<0, 144, 60, 100, 1, 60, 0>>

\* C22: MIDIChannelVoiceMessage::write_buffer writes the delta-time, then the
\* status if the message has one, then the note byte, then the velocity:
\* four bytes for a message with a status and three for one without, whatever
\* the delta-time, the note and the velocity are.
C22_MessageBytes ==
    result.op = "msg_write_buffer" =>
        LET m == result.msg
            w == Written
            velocity == IF args.note.note_type = "Rest" THEN 0 ELSE args.velocity
        IN  /\ m.delta_time = args.delta_time /\ m.velocity = velocity
            /\ (m.status # 0) <=> (args.status # "RunningStatus")
            /\ IF m.status # 0
               THEN w = <<args.delta_time, m.status, m.note, velocity>>
               ELSE w = <<args.delta_time, m.note, velocity>>

C22_Witness ==
    /\ result.op = "msg_write_buffer"
    /\ args.status = "RunningStatus"
    /\ args.delta_time = 255
    /\ args.velocity = 127
    /\ args.note = MIDINote("C", FromNat(4))
    /\ Written = <<255, 60, 127>>

----------------------------------------------------------------------------
(* SpecSink: MIDIFile::write_buffer on a sink that may fail.                *)
(* A sink is the bytes it has accepted and the number of write calls made   *)
(* on it.  A plan makes one call fail: the call numbered fail_at (0: none), *)
(* after the sink has accepted at most `partial` bytes of that call's       *)
(* buffer, and never the whole buffer.  Calls after the failing one would   *)
(* succeed.                                                                 *)

FreshSink == [bytes |-> <<>>, attempts |-> 0]

\* Write::write_all(buf) on the sink
write_all(sink, buf, plan) ==
    IF sink.attempts + 1 = plan.fail_at
    THEN LET k == IF plan.partial < Len(buf) THEN plan.partial ELSE Len(buf) - 1
         IN  [ok |-> FALSE,
              err |-> [kind |-> "io::Error", attempt |-> sink.attempts + 1],
              sink |-> [bytes |-> sink.bytes \o SubSeq(buf, 1, k),
                        attempts |-> sink.attempts + 1]]
    ELSE [ok |-> TRUE,
          sink |-> [bytes |-> sink.bytes \o buf, attempts |-> sink.attempts + 1]]

\* mutant: the result of every write is dropped, and the last one returned
RECURSIVE write_each_Unchecked(_, _, _)
write_each_Unchecked(bufs, sink, plan) ==
    IF Len(bufs) = 0 THEN [ok |-> TRUE, sink |-> sink]
    ELSE LET w == write_all(sink, bufs[1], plan)
         IN  IF Len(bufs) = 1 THEN w
             ELSE write_each_Unchecked(Tail(bufs), w.sink, plan)

\* a run of `target.write_..(..)?;` statements: the first Err is returned
RECURSIVE write_each(_, _, _)
write_each(bufs, sink, plan) ==
    IF Len(bufs) = 0 THEN [ok |-> TRUE, sink |-> sink]
    ELSE LET w == write_all(sink, bufs[1], plan)
         IN  IF ~w.ok THEN w
             ELSE write_each(Tail(bufs), w.sink, plan)

\* the buffers of the write calls of MIDIHeader::write_buffer
MIDIHeader_write_calls(h) ==
    [i \in 1..4 |-> <<h.chunk_type[i]>>]
        \o <<BE32(h.length), BE16(h.format), BE16(h.tracks), BE16(h.division)>>

\* the buffers of the write calls of MIDITrackHeader::write_buffer
MIDITrackHeader_write_calls(h) ==
    [i \in 1..4 |-> <<h.chunk_type[i]>>] \o <<BE32(h.length)>>

\* the buffers of the write calls of MIDIChannelVoiceMessage::write_buffer
MIDIChannelVoiceMessage_write_calls(m) ==
    <<<<m.delta_time>>>>
        \o (IF m.status # 0 THEN <<<<m.status>>>> ELSE <<>>)
        \o <<<<m.note>>, <<m.velocity>>>>

RECURSIVE EventCalls(_)
EventCalls(events) ==
    IF events = <<>> THEN <<>>
    ELSE MIDIChannelVoiceMessage_write_calls(Head(events))
             \o EventCalls(Tail(events))

\* MIDIFile::write_buffer on a sink with a plan: what it returns (or that it
\* panicked) and the sink afterwards
MIDIFile_write_buffer_sink(self, checks, sink, plan) ==
    LET header == write_each(MIDIHeader_write_calls(gen_header(self)), sink, plan)
    IN  IF ~header.ok
        THEN [panicked |-> FALSE, ret |-> [ok |-> FALSE, err |-> header.err],
              sink |-> header.sink]
        ELSE
    LET track_header == gen_track_header(self, checks)
    IN  IF track_header.panicked
        THEN [panicked |-> TRUE, sink |-> header.sink]
        ELSE
    LET th == write_each(MIDITrackHeader_write_calls(track_header.header),
                         header.sink, plan)
    IN  IF ~th.ok
        THEN [panicked |-> FALSE, ret |-> [ok |-> FALSE, err |-> th.err],
              sink |-> th.sink]
        ELSE
    LET track == gen_track(self, checks)
    IN  IF track.panicked
        THEN [panicked |-> TRUE, sink |-> th.sink]
        ELSE
    LET events == write_each(EventCalls(track.events), th.sink, plan)
    IN  IF ~events.ok
        THEN [panicked |-> FALSE, ret |-> [ok |-> FALSE, err |-> events.err],
              sink |-> events.sink]
        ELSE [panicked |-> FALSE, ret |-> [ok |-> TRUE], sink |-> events.sink]

\* the most write calls a file of the model needs, and one more
MaxCalls == 13 + 7 * MaxLen + 1

Plans == [fail_at : 0..MaxCalls, partial : {0, 1, 3}]

\* an ordinary note and a note whose number overflows 32 bits
SinkNotes == {MIDINote("C", FromNat(4)), MIDINote("E", FromNat(357913940))}

SinkSequences == UNION {[1..n -> SinkNotes] : n \in 0..MaxLen}

InitSink ==
    /\ overflow_checks \in BOOLEAN
    /\ \E sequence \in SinkSequences, h \in FileHeaders :
          file = MIDIFile_new(sequence, h[1], h[2], h[3])
    /\ args = NoArgs
    /\ target = <<>>
    /\ writes = 0
    /\ result = NoResult

\* file.write_buffer(&mut sink) on a fresh sink with some plan
WriteBufferSink ==
    /\ writes = 0
    /\ \E plan \in Plans :
          LET w == MIDIFile_write_buffer_sink(file, overflow_checks, FreshSink, plan)
          IN  /\ args' = [plan |-> plan]
              /\ target' = w.sink.bytes
              /\ result' = [op |-> "write_buffer", panicked |-> w.panicked,
                            from |-> 0, attempts |-> w.sink.attempts,
                            ret |-> IF w.panicked THEN [ok |-> FALSE] ELSE w.ret]
    /\ writes' = writes + 1
    /\ UNCHANGED <<overflow_checks, file>>

NextSink ==
    \/ WriteBufferSink

SpecSink == InitSink /\ [][NextSink]_vars

----------------------------------------------------------------------------
(* Properties of write_buffer on a failing sink *)

\* the bytes a sink that accepts everything gets from the file
FullOutput == MIDIFile_write_buffer(file, overflow_checks).bytes

\* C23: when a write call on the sink fails during MIDIFile::write_buffer,
\* write_buffer returns the error of that call, the failing call is the last
\* call made on the sink (it is not tried again and nothing is written after
\* it), and the sink holds a strict prefix of the bytes that a sink without
\* failures gets; without a failure the sink holds all of those bytes.
C23_SinkFailure ==
    (result.op = "write_buffer" /\ "plan" \in DOMAIN args) =>
        IF result.panicked
        THEN target = FullOutput
        ELSE IF result.ret.ok
        THEN /\ target = FullOutput
             /\ args.plan.fail_at = 0 \/ result.attempts < args.plan.fail_at
        ELSE /\ result.ret.err = [kind |-> "io::Error",
                                  attempt |-> args.plan.fail_at]
             /\ result.attempts = args.plan.fail_at
             /\ Len(target) < Len(FullOutput)
             /\ target = SubSeq(FullOutput, 1, Len(target))

C23_Witness ==
    /\ result.op = "write_buffer"
    /\ "plan" \in DOMAIN args
    /\ ~result.panicked
    /\ ~result.ret.ok
    /\ Len(file.sequence) = 2
    /\ args.plan = [fail_at |-> 13, partial |-> 3]
    /\ Len(target) = 18 + 3

----------------------------------------------------------------------------
(* Properties of the note byte and of the order of the parser's checks *)

\* the note number modulo 256: 0xFF for a Rest, and otherwise the low eight
\* bits of the exact 12 * (octave + 1) + ordinal
NoteByte(note) ==
    IF note.note_type = "Rest" THEN 255 ELSE NoteNumber(note).lo % 256

\* C24: the note byte of a message is the note number of its note modulo 256,
\* with no check of the range: 0xFF for a Rest, the low eight bits for a note
\* number above 127; write_buffer writes that byte before the velocity.
C24_NoteByteTruncated ==
    /\ (result.op = "new" /\ ~result.ret.panicked) =>
          /\ result.ret.msg.note = NoteByte(args.note)
          /\ result.ret.msg.note =
                 MIDINote_convert(args.note, overflow_checks).value.lo % 256
    /\ result.op = "msg_write_buffer" =>
          Written[Len(Written) - 1] = NoteByte(args.note)

C24_Witness ==
    /\ result.op = "msg_write_buffer"
    /\ args.note = MIDINote("G", FromNat(20))
    /\ Written[Len(Written) - 1] = 3

\* C25: MIDINote::from_str reports the first check that fails, the checks
\* being the number of parts, then the note type, then the octave: a text
\* without exactly one ':' is an InvalidNoteFormat whatever its parts are (the
\* empty text too), an unknown note type is reported even when the octave is
\* no number, and InvalidOctave is reported only for a known note type; so
\* the empty list text fails as a MIDINoteSet at index 0.
C25_FirstFailingCheck ==
    /\ result.op = "MIDINote::from_str" =>
          LET s == args.text
              kind == IF result.ret.ok THEN "Ok" ELSE result.ret.err.kind
              class == SubSeq(s, 1, Find(s, ":") - 1)
              octave == SubSeq(s, Find(s, ":") + 1, Len(s))
          IN  /\ kind = "InvalidNoteFormat" <=> Count(s, ":") # 1
              /\ kind = "UnknownNoteType"
                     <=> (Count(s, ":") = 1 /\ ~Recognized(class))
              /\ kind = "InvalidOctave"
                     <=> (/\ Count(s, ":") = 1
                          /\ Recognized(class)
                          /\ ~IsUnsigned32(octave))
              /\ s = <<>> => result.ret.err.input = <<>>
    /\ (result.op = "MIDINoteSet::from_str" /\ args.text = <<>>) =>
          result.ret = [ok |-> FALSE,
                        err |-> [kind |-> "ParseMIDINote", index |-> 0,
                                 source |-> [kind |-> "InvalidNoteFormat",
                                             input |-> <<>>]]]

C25_Witness ==
    /\ result.op = "MIDINote::from_str"
    /\ args.text = <<"C", "$", ":", "x">>
    /\ result.ret = [ok |-> FALSE,
                     err |-> [kind |-> "UnknownNoteType", input |-> <<"C", "$">>]]

====
